---- MODULE Spec2Model ----
(***************************************************************************)
(* Model of messaging/sms/deliver.py: SmsDeliver, the decoder of received  *)
(* SMS PDUs (SMS-DELIVER and SMS-STATUS-REPORT).                           *)
(*                                                                         *)
(* A hex string is a sequence of one-character strings, an octet array a   *)
(* sequence of 0..255.  Python's None is the empty tuple and a set value v *)
(* is <<v>>, so that every attribute has one shape.  A datetime is the     *)
(* number of seconds since 1970-01-01 00:00:00 (naive).                    *)
(***************************************************************************)
EXTENDS Integers, Sequences, FiniteSets, TLC

None == << >>
Some(v) == <<v>>

----------------------------------------------------------------------------
(* Octet arithmetic                                                        *)

RECURSIVE BitAnd(_, _)
BitAnd(a, b) ==
    IF a = 0 \/ b = 0 THEN 0
    ELSE (a % 2) * (b % 2) + 2 * BitAnd(a \div 2, b \div 2)

RECURSIVE Pow2(_)
Pow2(n) == IF n = 0 THEN 1 ELSE 2 * Pow2(n - 1)

ShiftRight(a, n) == a \div Pow2(n)
ShiftLeft(a, n) == a * Pow2(n)

Min(a, b) == IF a <= b THEN a ELSE b

(* data[:n] and data[n:] of Python: slices never fail, they shorten.       *)
Take(s, n) == SubSeq(s, 1, Min(n, Len(s)))
Drop(s, n) == SubSeq(s, Min(n, Len(s)) + 1, Len(s))

----------------------------------------------------------------------------
(* messaging.utils                                                         *)

HexDigits == <<"0", "1", "2", "3", "4", "5", "6", "7",
               "8", "9", "A", "B", "C", "D", "E", "F">>

HexVal(c) == (CHOOSE i \in 1..16 : HexDigits[i] = c) - 1

IsDecimal(c) == \E i \in 1..10 : HexDigits[i] = c

(* to_array(pdu): one octet per two hex digits.                            *)
to_array(pdu) ==
    [i \in 1..(Len(pdu) \div 2) |->
        16 * HexVal(pdu[2 * i - 1]) + HexVal(pdu[2 * i])]

(* encode_bytes(data): two upper-case hex digits per octet.                *)
encode_bytes(data) ==
    [i \in 1..(2 * Len(data)) |->
        IF i % 2 = 1 THEN HexDigits[(data[(i + 1) \div 2] \div 16) + 1]
        ELSE HexDigits[(data[i \div 2] % 16) + 1]]

(* the pairwise swap of deliver.py lines 153-154, also messaging.utils.swap *)
SwapPairs(s) ==
    [i \in 1..Len(s) |->
        IF i % 2 = 1
        THEN (IF i + 1 <= Len(s) THEN s[i + 1] ELSE s[i])
        ELSE s[i - 1]]

RECURSIVE RStripF(_)
RStripF(s) ==
    IF Len(s) > 0 /\ s[Len(s)] = "F" THEN RStripF(SubSeq(s, 1, Len(s) - 1))
    ELSE s

(* swap_number(n): swapped-BCD digits, the trailing filler removed.        *)
swap_number(n) == RStripF(SwapPairs(n))

MaxSeptets == 160

(* The unpacking loop shared by unpack_msg (over a hex string) and         *)
(* unpack_msg2 (over octets): septets out of packed octets.                *)
RECURSIVE UnpackLoop(_, _, _, _, _)
UnpackLoop(octets, i, count, last, result) ==
    IF i > Len(octets) THEN result
    ELSE LET byte == octets[i]
             mask == ShiftRight(127, count)
             out  == ShiftLeft(BitAnd(byte, mask), count) + last
             nxt  == ShiftRight(byte, 7 - count)
             res1 == Append(result, out)
         IN  IF Len(res1) >= MaxSeptets THEN res1
             ELSE IF count = 6
                  THEN UnpackLoop(octets, i + 1, 0, 0, Append(res1, nxt))
                  ELSE UnpackLoop(octets, i + 1, count + 1, nxt, res1)

unpack_msg2(octets) == UnpackLoop(octets, 1, 0, 0, << >>)

unpack_msg(hex) == UnpackLoop(to_array(hex), 1, 0, 0, << >>)

(* The three shapes a decoded text takes.  The gsm0338 codec and unichr    *)
(* are tables outside this file: a text is the tag of the conversion and   *)
(* the units it was applied to.                                            *)
Gsm0338(septets) == [codec |-> "gsm0338", units |-> septets]
RawBytes(octets) == [codec |-> "bytes", units |-> octets]
Unichrs(units)   == [codec |-> "unichr", units |-> units]
Chars(s)         == [codec |-> "str", units |-> s]

(* messaging.sms.consts: type-of-number values                             *)
INTERNATIONAL == 1
ALPHANUMERIC == 5

(* UserDataHeader.from_bytes / from_status_report_ref: parsed elsewhere;   *)
(* the descriptor is kept as the bytes it was built from.                  *)
UdhFromBytes(octets) == [kind |-> "udh", bytes |-> octets]
UdhFromStatusReportRef(ref) == [kind |-> "sr_ref", bytes |-> <<ref>>]

----------------------------------------------------------------------------
(* datetime.strptime(datestr, '%y/%m/%d %H:%M:%S') and timedelta           *)

IsLeap(y) == (y % 4 = 0 /\ y % 100 # 0) \/ y % 400 = 0

DaysInMonth(y, m) ==
    IF m = 2 THEN (IF IsLeap(y) THEN 29 ELSE 28)
    ELSE IF m \in {4, 6, 9, 11} THEN 30 ELSE 31

RECURSIVE DaysBeforeMonth(_, _)
DaysBeforeMonth(y, m) ==
    IF m <= 1 THEN 0 ELSE DaysInMonth(y, m - 1) + DaysBeforeMonth(y, m - 1)

LeapsBefore(y) == ((y - 1) \div 4) - ((y - 1) \div 100) + ((y - 1) \div 400)

DaysBeforeYear(y) == 365 * (y - 1970) + LeapsBefore(y) - LeapsBefore(1970)

TwoDigits(s, i) == 10 * HexVal(s[i]) + HexVal(s[i + 1])

(* the year of %y: 69..99 are 19xx, 00..68 are 20xx                        *)
FullYear(yy) == IF yy >= 69 THEN 1900 + yy ELSE 2000 + yy

(* datestr is "yy/mm/dd HH:MM:SS", 17 characters                           *)
StrptimeOk(datestr) ==
    /\ \A i \in {1, 2, 4, 5, 7, 8, 10, 11, 13, 14, 16, 17} : IsDecimal(datestr[i])
    /\ LET y  == FullYear(TwoDigits(datestr, 1))
           m  == TwoDigits(datestr, 4)
           d  == TwoDigits(datestr, 7)
           hh == TwoDigits(datestr, 10)
           mm == TwoDigits(datestr, 13)
           ss == TwoDigits(datestr, 16)
       IN  /\ m \in 1..12
           /\ d >= 1
           /\ d <= DaysInMonth(y, m)
           /\ hh <= 23
           /\ mm <= 59
           /\ ss <= 59

Strptime(datestr) ==
    LET y  == FullYear(TwoDigits(datestr, 1))
        m  == TwoDigits(datestr, 4)
        d  == TwoDigits(datestr, 7)
        hh == TwoDigits(datestr, 10)
        mm == TwoDigits(datestr, 13)
        ss == TwoDigits(datestr, 16)
    IN  ((DaysBeforeYear(y) + DaysBeforeMonth(y, m) + (d - 1)) * 24 + hh) * 3600
        + mm * 60 + ss

(* "%s%s/%s%s/%s%s %s%s:%s%s:%s%s" % tuple(date)                            *)
FormatDate(date) ==
    <<date[1], date[2], "/", date[3], date[4], "/", date[5], date[6], " ",
      date[7], date[8], ":", date[9], date[10], ":", date[11], date[12]>>
(* TzOffset with the negation of line 162-163 left out                     *)
TzOffset_NoSign(tz) ==
    (BitAnd(tz, 7) * 10 + ShiftRight(BitAnd(tz, 240), 4)) * 15

(* offset in minutes of the timezone octet                                 *)
TzOffset(tz) ==
    LET offset == (BitAnd(tz, 7) * 10 + ShiftRight(BitAnd(tz, 240), 4)) * 15
    IN  IF BitAnd(tz, 8) # 0 THEN offset * (-1) ELSE offset

(* The timestamp block: 6 swapped-BCD octets and the timezone octet.       *)
(* Result: err, or the data left, the date string, the local and the UTC   *)
(* datetime.                                                               *)
DecodeTimestamp(data) ==
    LET date == SwapPairs(encode_bytes(Take(data, 6)))
        rest == Drop(data, 6)
    IN  IF Len(rest) = 0
        THEN [err |-> "IndexError"]
        ELSE LET tz      == Head(rest)
                 datestr == FormatDate(date)
             IN  IF ~StrptimeOk(datestr)
                 THEN [err |-> "ValueError"]
                 ELSE [err |-> "", data |-> Tail(rest), tz |-> tz,
                       datestr |-> datestr,
                       sndlocaltime |-> Strptime(datestr),
                       utc |-> Strptime(datestr) - TzOffset(tz) * 60]

----------------------------------------------------------------------------
(* SmsDeliver                                                              *)

VARIABLES pdu, strict, sms

vars == <<pdu, strict, sms>>

(* The object after SmsBase.__init__ and lines 17-29, before self.pdu is   *)
(* assigned; data and the snd*, msgl, ud_len, headlen fields are the       *)
(* locals of the decoding methods.                                         *)
NewSms ==
    [pc |-> "set_pdu", err |-> "",
     _pdu |-> None, date |-> None, mtype |-> None, sr |-> None,
     tp_mti |-> None, tp_mms |-> None, tp_udhi |-> None,
     csca |-> None, number |-> None, pid |-> None, dcs |-> None,
     fmt |-> None, text |-> None, udh |-> None,
     data |-> << >>, sndtype |-> None, sndaddr |-> None,
     sndlocaltime |-> None, tz |-> None,
     msgl |-> None, ud_len |-> None, headlen |-> None, body |-> None,
     recipient |-> None, scts_str |-> None, dt |-> None, dt_str |-> None,
     dt_local |-> None, dt_tz |-> None]

Raise(s, e) == [s EXCEPT !.pc = "failed", !.err = e]
(* SetPduStep with the lenient trim taken at the wrong end                 *)
SetPduStep_TrimFront(s, p, strictMode) ==
    LET p1 == IF ~strictMode /\ Len(p) % 2 = 1 THEN Tail(p) ELSE p
    IN  IF Len(p1) % 2 = 1
        THEN Raise(s, "ValueError")
        ELSE [s EXCEPT !._pdu = Some(p1), !.data = to_array(p1), !.pc = "smsc"]

(* lines 62-75: the odd-length policy and the octet array                  *)
SetPduStep(s, p, strictMode) ==
    LET p1 == IF ~strictMode /\ Len(p) % 2 = 1
              THEN SubSeq(p, 1, Len(p) - 1) ELSE p
    IN  IF Len(p1) % 2 = 1
        THEN Raise(s, "ValueError")
        ELSE [s EXCEPT !._pdu = Some(p1), !.data = to_array(p1), !.pc = "smsc"]

(* lines 77-87: service centre address                                     *)
SmscStep(s) ==
    IF Len(s.data) = 0 THEN Raise(s, "IndexError")
    ELSE LET smscl == Head(s.data)
             d1    == Tail(s.data)
         IN  IF smscl > 0
             THEN IF Len(d1) = 0 THEN Raise(s, "IndexError")
                  ELSE LET smscertype == Head(d1)
                           d2     == Tail(d1)
                           n      == smscl - 1
                           digits == swap_number(encode_bytes(Take(d2, n)))
                           csca   == IF BitAnd(ShiftRight(smscertype, 4), 7) = INTERNATIONAL
                                     THEN <<"+">> \o digits ELSE digits
                       IN  [s EXCEPT !.csca = Some(csca), !.data = Drop(d2, n),
                                     !.pc = "mtype"]
             ELSE [s EXCEPT !.csca = None, !.data = d1, !.pc = "mtype"]
(* MtypeStep without the SMS-SUBMIT-REPORT test of lines 118-119            *)
MtypeStep_NoSubmitReportTest(s) ==
    IF Len(s.data) = 0 THEN Raise(s, "IndexError")
    ELSE LET mtype  == Head(s.data)
             tp_mti == BitAnd(mtype, 3)
             s1 == [s EXCEPT !.mtype = Some(mtype), !.data = Tail(s.data),
                             !.tp_mti = Some(tp_mti),
                             !.tp_mms = Some(BitAnd(mtype, 4) = 0),
                             !.tp_udhi = Some(BitAnd(mtype, 64) # 0)]
         IN  IF tp_mti = 3 THEN Raise(s1, "ValueError")
             ELSE IF tp_mti = 2 THEN [s1 EXCEPT !.pc = "status_report"]
             ELSE [s1 EXCEPT !.pc = "sender"]

(* lines 95-119: the message-type octet and the dispatch on TP-MTI         *)
MtypeStep(s) ==
    IF Len(s.data) = 0 THEN Raise(s, "IndexError")
    ELSE LET mtype  == Head(s.data)
             tp_mti == BitAnd(mtype, 3)
             s1 == [s EXCEPT !.mtype = Some(mtype), !.data = Tail(s.data),
                             !.tp_mti = Some(tp_mti),
                             !.tp_mms = Some(BitAnd(mtype, 4) = 0),
                             !.tp_udhi = Some(BitAnd(mtype, 64) # 0)]
         IN  IF tp_mti = 3 THEN Raise(s1, "ValueError")
             ELSE IF tp_mti = 2 THEN [s1 EXCEPT !.pc = "status_report"]
             ELSE IF tp_mti = 1 THEN Raise(s1, "ValueError")
             ELSE [s1 EXCEPT !.pc = "sender"]

(* lines 121-124, 214-217: semi-octet count to octet count                 *)
AddrOctets(sndlen) == (IF sndlen % 2 = 1 THEN sndlen + 1 ELSE sndlen) \div 2

(* lines 121-137: sender address                                           *)
SenderStep(s) ==
    IF Len(s.data) = 0 THEN Raise(s, "IndexError")
    ELSE LET sndlen == AddrOctets(Head(s.data))
             d1     == Tail(s.data)
         IN  IF Len(d1) = 0 THEN Raise(s, "IndexError")
             ELSE LET sndtype == BitAnd(ShiftRight(Head(d1), 4), 7)
                      d2      == Tail(d1)
                      addr    == Take(d2, sndlen)
                      sender  ==
                          IF sndtype = ALPHANUMERIC
                          THEN Gsm0338(unpack_msg2(addr))
                          ELSE Chars(IF sndtype = INTERNATIONAL
                                     THEN <<"+">> \o swap_number(encode_bytes(addr))
                                     ELSE swap_number(encode_bytes(addr)))
                  IN  [s EXCEPT !.number = Some(sender), !.sndtype = Some(sndtype),
                                !.sndaddr = Some(addr),
                                !.data = Drop(d2, sndlen), !.pc = "pid_dcs"]
(* DcsFormat with bit 3 tested before bit 2                                *)
DcsFormat_Bit3First(dcs) ==
    IF BitAnd(dcs, 12) = 0 THEN Some(0)
    ELSE IF BitAnd(dcs, 8) # 0 THEN Some(8)
    ELSE IF BitAnd(dcs, 4) # 0 THEN Some(4)
    ELSE None

(* lines 143-148: the text format of a data coding scheme octet            *)
DcsFormat(dcs) ==
    IF BitAnd(dcs, 12) = 0 THEN Some(0)
    ELSE IF BitAnd(dcs, 4) # 0 THEN Some(4)
    ELSE IF BitAnd(dcs, 8) # 0 THEN Some(8)
    ELSE None

(* lines 139-148: TP-PID and TP-DCS                                        *)
PidDcsStep(s) ==
    IF Len(s.data) = 0 THEN Raise(s, "IndexError")
    ELSE IF Len(s.data) = 1
    THEN Raise([s EXCEPT !.pid = Some(s.data[1]), !.data = << >>], "IndexError")
    ELSE LET pid == s.data[1]
             dcs == s.data[2]
         IN  [s EXCEPT !.pid = Some(pid), !.dcs = Some(dcs),
                       !.fmt = DcsFormat(dcs),
                       !.data = Tail(Tail(s.data)), !.pc = "scts"]

(* lines 150-174: TP-SCTS, then the call of _process_message               *)
SctsStep(s) ==
    LET t == DecodeTimestamp(s.data)
    IN  IF t.err # "" THEN Raise(s, t.err)
        ELSE [s EXCEPT !.date = Some(t.utc), !.sndlocaltime = Some(t.sndlocaltime),
                       !.tz = Some(t.tz),
                       !.data = t.data, !.pc = "process_message"]

(* s[a:b] of Python                                                        *)
Slice(s, a, b) ==
    LET lo == Min(a, Len(s))
        hi == Min(b, Len(s))
    IN  IF lo >= hi THEN << >> ELSE SubSeq(s, lo + 1, hi)

(* lines 188-189: while headlen % 7: headlen += 1                          *)
RECURSIVE RoundUp7(_)
RoundUp7(h) == IF h % 7 # 0 THEN RoundUp7(h + 1) ELSE h
(* HeadLen with the septet count rounded down instead of up                *)
HeadLen_RoundDown(ud_len, fmt) ==
    IF fmt = Some(0) THEN ((ud_len + 1) * 8) \div 7
    ELSE (ud_len + 1) * 8

(* lines 186-192: the header length in the unit of the text format         *)
HeadLen(ud_len, fmt) ==
    IF fmt = Some(0) THEN RoundUp7((ud_len + 1) * 8) \div 7
    ELSE (ud_len + 1) * 8

(* lines 205-206: big-endian 16-bit units of an even number of octets      *)
Pairs16(octets) ==
    [i \in 1..(Len(octets) \div 2) |-> 256 * octets[2 * i - 1] + octets[2 * i]]
(* DecodeText with the 8-bit and 16-bit text cut at the declared length    *)
DecodeText_Bounded(fmt, msg, data, ud_len, headlen, msgl) ==
    LET body == Take(Drop(data, ud_len), msgl)
    IN  IF fmt = Some(0)
        THEN [err |-> "", text |-> Some(Gsm0338(Slice(unpack_msg(msg), headlen, msgl)))]
        ELSE IF fmt = Some(4)
        THEN [err |-> "", text |-> Some(RawBytes(body))]
        ELSE IF fmt = Some(8)
        THEN IF Len(body) % 2 = 1
             THEN [err |-> "IndexError", text |-> None]
             ELSE [err |-> "", text |-> Some(Unichrs(Pairs16(body)))]
        ELSE [err |-> "", text |-> None]

(* lines 194-207: the text of the three formats                            *)
DecodeText(fmt, msg, data, ud_len, headlen, msgl) ==
    IF fmt = Some(0)
    THEN [err |-> "", text |-> Some(Gsm0338(Slice(unpack_msg(msg), headlen, msgl)))]
    ELSE IF fmt = Some(4)
    THEN [err |-> "", text |-> Some(RawBytes(Drop(data, ud_len)))]
    ELSE IF fmt = Some(8)
    THEN IF Len(Drop(data, ud_len)) % 2 = 1
         THEN [err |-> "IndexError", text |-> None]
         ELSE [err |-> "", text |-> Some(Unichrs(Pairs16(Drop(data, ud_len))))]
    ELSE [err |-> "", text |-> None]
(* ProcessMessageStep with a missing user-data-length octet read as 0      *)
ProcessMessageStep_NoUdl(s) ==
    IF Len(s.data) = 0
    THEN [s EXCEPT !.msgl = Some(0), !.body = Some(<< >>), !.headlen = Some(0),
                   !.ud_len = Some(0), !.text = Some(RawBytes(<< >>)), !.pc = "done"]
    ELSE LET msgl == Head(s.data)
             d1   == Tail(s.data)
             msg  == encode_bytes(Take(d1, msgl))
             s1   == [s EXCEPT !.msgl = Some(msgl), !.body = Some(d1),
                               !.headlen = Some(0), !.ud_len = Some(0)]
         IN  IF s.tp_udhi = Some(TRUE)
             THEN IF Len(d1) = 0 THEN Raise(s1, "IndexError")
                  ELSE LET ud_len  == Head(d1)
                           d2      == Tail(d1)
                           headlen == HeadLen(ud_len, s.fmt)
                           t       == DecodeText(s.fmt, msg, d2, ud_len, headlen, msgl)
                           s2      == [s1 EXCEPT !.ud_len = Some(ud_len),
                                                 !.udh = Some(UdhFromBytes(Take(d2, ud_len))),
                                                 !.headlen = Some(headlen),
                                                 !.data = d2]
                       IN  IF t.err # "" THEN Raise(s2, t.err)
                           ELSE [s2 EXCEPT !.text = t.text, !.pc = "done"]
             ELSE LET t == DecodeText(s.fmt, msg, d1, 0, 0, msgl)
                  IN  IF t.err # "" THEN Raise([s1 EXCEPT !.data = d1], t.err)
                      ELSE [s1 EXCEPT !.text = t.text, !.data = d1, !.pc = "done"]

(* lines 176-207: _process_message                                         *)
ProcessMessageStep(s) ==
    IF Len(s.data) = 0 THEN Raise(s, "IndexError")
    ELSE LET msgl == Head(s.data)
             d1   == Tail(s.data)
             msg  == encode_bytes(Take(d1, msgl))
             s1   == [s EXCEPT !.msgl = Some(msgl), !.body = Some(d1),
                               !.headlen = Some(0), !.ud_len = Some(0)]
         IN  IF s.tp_udhi = Some(TRUE)
             THEN IF Len(d1) = 0 THEN Raise(s1, "IndexError")
                  ELSE LET ud_len  == Head(d1)
                           d2      == Tail(d1)
                           headlen == HeadLen(ud_len, s.fmt)
                           t       == DecodeText(s.fmt, msg, d2, ud_len, headlen, msgl)
                           s2      == [s1 EXCEPT !.ud_len = Some(ud_len),
                                                 !.udh = Some(UdhFromBytes(Take(d2, ud_len))),
                                                 !.headlen = Some(headlen),
                                                 !.data = d2]
                       IN  IF t.err # "" THEN Raise(s2, t.err)
                           ELSE [s2 EXCEPT !.text = t.text, !.pc = "done"]
             ELSE LET t == DecodeText(s.fmt, msg, d1, 0, 0, msgl)
                  IN  IF t.err # "" THEN Raise([s1 EXCEPT !.data = d1], t.err)
                      ELSE [s1 EXCEPT !.text = t.text, !.data = d1, !.pc = "done"]

(* lines 211-224: status report reference and recipient address            *)
SrAddressStep(s) ==
    IF Len(s.data) < 3 THEN Raise(s, "IndexError")
    ELSE LET ref     == s.data[1]
             sndlen  == AddrOctets(s.data[2])
             sndtype == s.data[3]
             d3      == Drop(s.data, 3)
             digits  == swap_number(encode_bytes(Take(d3, sndlen)))
             recipient == Chars(IF BitAnd(ShiftRight(sndtype, 4), 7) = INTERNATIONAL
                                THEN <<"+">> \o digits ELSE digits)
         IN  [s EXCEPT !.udh = Some(UdhFromStatusReportRef(ref)),
                       !.sndtype = Some(sndtype), !.sndaddr = Some(Take(d3, sndlen)),
                       !.recipient = Some(recipient),
                       !.data = Drop(d3, sndlen), !.pc = "sr_timestamps"]

(* lines 226-275: submission (TP-SCTS) and discharge (TP-DT) timestamps    *)
SrTimestampsStep(s) ==
    LET t1 == DecodeTimestamp(s.data)
    IN  IF t1.err # "" THEN Raise(s, t1.err)
        ELSE LET s1 == [s EXCEPT !.date = Some(t1.utc),
                                 !.sndlocaltime = Some(t1.sndlocaltime),
                                 !.tz = Some(t1.tz),
                                 !.scts_str = Some(t1.datestr), !.data = t1.data]
                 t2 == DecodeTimestamp(t1.data)
             IN  IF t2.err # "" THEN Raise(s1, t2.err)
                 ELSE [s1 EXCEPT !.dt = Some(t2.utc), !.dt_str = Some(t2.datestr),
                                 !.dt_local = Some(t2.sndlocaltime),
                                 !.dt_tz = Some(t2.tz),
                                 !.data = t2.data, !.pc = "sr_status"]

SR_OK == <<"S", "R", "-", "O", "K">>
SR_UNKNOWN == <<"S", "R", "-", "U", "N", "K", "N", "O", "W", "N">>
SR_STORED == <<"S", "R", "-", "S", "T", "O", "R", "E", "D">>

(* "|".join(msg_l)                                                         *)
RECURSIVE Join(_)
Join(parts) ==
    IF Len(parts) = 0 THEN << >>
    ELSE IF Len(parts) = 1 THEN parts[1]
    ELSE parts[1] \o <<"|">> \o Join(Tail(parts))
(* StatusLabel with 0x01 taken for a stored message                        *)
StatusLabel_OneStored(status) ==
    IF status = 0 THEN SR_OK
    ELSE IF status = 1 THEN SR_STORED
    ELSE IF status = 48 THEN SR_STORED
    ELSE SR_UNKNOWN

(* lines 291-302: the label of a status octet                              *)
StatusLabel(status) ==
    IF status = 0 THEN SR_OK
    ELSE IF status = 1 THEN SR_UNKNOWN
    ELSE IF status = 48 THEN SR_STORED
    ELSE SR_UNKNOWN
(* SrStatusStep with the discharge time left out when the status is absent *)
SrStatusStep_EmptyWhenAbsent(s) ==
    LET recipient == s.recipient[1].units
        scts_str  == s.scts_str[1]
        dt_str    == s.dt_str[1]
        absent    == Len(s.data) = 0
        _status   == IF absent THEN None ELSE Some(Head(s.data))
        msg_l     == IF ~absent /\ Head(s.data) = 0 THEN <<recipient, scts_str, dt_str>>
                     ELSE <<recipient, scts_str, << >> >>
        sender    == IF absent THEN SR_UNKNOWN ELSE StatusLabel(Head(s.data))
    IN  [s EXCEPT !.number = Some(Chars(sender)),
                  !.text = Some(Chars(Join(msg_l))),
                  !.fmt = Some(8),
                  !.sr = Some([recipient |-> s.recipient[1], scts |-> s.date[1],
                               dt |-> s.dt[1], status |-> _status]),
                  !.data = IF absent THEN << >> ELSE Tail(s.data),
                  !.pc = "done"]

(* lines 278-313: the status octet, the label and the composite text       *)
SrStatusStep(s) ==
    LET recipient == s.recipient[1].units
        scts_str  == s.scts_str[1]
        dt_str    == s.dt_str[1]
        absent    == Len(s.data) = 0
        _status   == IF absent THEN None ELSE Some(Head(s.data))
        msg_l     == IF absent THEN <<recipient, scts_str, dt_str>>
                     ELSE IF Head(s.data) = 0 THEN <<recipient, scts_str, dt_str>>
                     ELSE <<recipient, scts_str, << >> >>
        sender    == IF absent THEN SR_UNKNOWN ELSE StatusLabel(Head(s.data))
    IN  [s EXCEPT !.number = Some(Chars(sender)),
                  !.text = Some(Chars(Join(msg_l))),
                  !.fmt = Some(8),
                  !.sr = Some([recipient |-> s.recipient[1], scts |-> s.date[1],
                               dt |-> s.dt[1], status |-> _status]),
                  !.data = IF absent THEN << >> ELSE Tail(s.data),
                  !.pc = "done"]

(* One step of the decoder from any control point.                         *)
Step(s, p, strictMode) ==
    CASE s.pc = "set_pdu"         -> SetPduStep(s, p, strictMode)
      [] s.pc = "smsc"            -> SmscStep(s)
      [] s.pc = "mtype"           -> MtypeStep(s)
      [] s.pc = "sender"          -> SenderStep(s)
      [] s.pc = "pid_dcs"         -> PidDcsStep(s)
      [] s.pc = "scts"            -> SctsStep(s)
      [] s.pc = "process_message" -> ProcessMessageStep(s)
      [] s.pc = "status_report"   -> SrAddressStep(s)
      [] s.pc = "sr_timestamps"   -> SrTimestampsStep(s)
      [] s.pc = "sr_status"       -> SrStatusStep(s)
      [] OTHER                    -> s

(* SmsDeliver(pdu, strict): the object, or the exception of the constructor *)
RECURSIVE RunFrom(_, _, _)
RunFrom(s, p, strictMode) ==
    IF s.pc \in {"done", "failed"} THEN s ELSE RunFrom(Step(s, p, strictMode), p, strictMode)

SmsDeliver(p, strictMode) == RunFrom(NewSms, p, strictMode)

----------------------------------------------------------------------------
(* The PDUs the decoder is run on                                          *)

MaxText == 3
MaxHdr == 2
MaxUdl == 7

Octets == 0..255

SeqsUpTo(S, n) == UNION {[1..k -> S] : k \in 0..n}

Prefixes(h) == {SubSeq(h, 1, k) : k \in 0..Len(h)}

(* service centre addresses: absent, international, national with filler  *)
Smscs == {<<0>>, <<2, 145, 33>>, <<3, 129, 33, 243>>}

(* sender / recipient addresses: length in semi-octets, type, digits       *)
AddrNone    == <<0, 129>>
AddrIntl    == <<3, 145, 33, 243>>
AddrNatl    == <<4, 161, 33, 67>>
AddrAlpha   == <<4, 208, 200, 50>>
Addrs == {AddrNone, AddrIntl, AddrNatl, AddrAlpha}

(* 02/08/26 19:37:41, 99/12/31 23:59:59, 00/02/29 00:00:00 and two dates   *)
(* strptime rejects (month 13, a hex letter)                               *)
Date1 == <<32, 128, 98, 145, 115, 20>>
Date2 == <<153, 33, 19, 50, 149, 149>>
Date3 == <<0, 32, 146, 0, 0, 0>>
DateBadMonth == <<32, 49, 98, 145, 115, 20>>
DateBadDigit == <<162, 128, 98, 145, 115, 20>>
Dates == {Date1, Date2, Date3, DateBadMonth, DateBadDigit}

HdrBytes == <<0, 3, 7, 2, 1, 9, 9, 9>>
TextBytes == {200, 50}

UserData(msgl, h, text) == <<msgl, h>> \o Take(HdrBytes, h) \o text

DeliverPdu(smsc, mtype, addr, pid, dcs, date, tz, ud) ==
    smsc \o <<mtype>> \o addr \o <<pid, dcs>> \o date \o <<tz>> \o ud

StatusReportPdu(smsc, mtype, ref, addr, date1, tz1, date2, tz2, tail) ==
    smsc \o <<mtype, ref>> \o addr \o date1 \o <<tz1>> \o date2 \o <<tz2>> \o tail

(* every prefix (even or odd) of a few PDUs of each shape, in both modes   *)
TruncatedInputs ==
    LET full == {DeliverPdu(smsc, 4, addr, 0, 0, Date1, 8, <<3, 200, 50, 1>>) :
                    smsc \in Smscs, addr \in Addrs}
                \cup {DeliverPdu(<<0>>, 68, AddrIntl, 0, dcs, Date1, 8,
                                 UserData(6, 2, <<200, 50>>)) : dcs \in {0, 4, 8}}
                \cup {StatusReportPdu(smsc, 6, 7, addr, Date1, 8, Date2, 0, <<0>>) :
                    smsc \in Smscs, addr \in Addrs}
    IN  {<<h, m>> : h \in UNION {Prefixes(encode_bytes(f)) : f \in full},
                    m \in BOOLEAN}

(* every message-type, data-coding-scheme, timezone and status octet       *)
SweepInputs ==
    LET full == {DeliverPdu(<<0>>, o, AddrIntl, 0, 0, Date1, 8, <<1, 200>>) : o \in Octets}
                \cup {<<0, o>> : o \in Octets}
                \cup {StatusReportPdu(<<0>>, o, 7, AddrNatl, Date1, 0, Date2, 0, <<48>>) :
                         o \in Octets}
                \cup {DeliverPdu(<<0>>, 4, AddrNatl, 0, o, Date1, 8, <<2, 200, 50>>) :
                         o \in Octets}
                \cup {DeliverPdu(<<0>>, 4, AddrNatl, 0, 0, d, o, <<1, 200>>) :
                         o \in Octets, d \in {Date1, Date3}}
                \cup {StatusReportPdu(<<0>>, 2, 7, AddrIntl, Date1, o, Date2, 0, <<0>>) :
                         o \in Octets}
                \cup {StatusReportPdu(<<0>>, 2, 7, AddrIntl, Date1, 0, Date2, o, <<48>>) :
                         o \in Octets}
                \cup {StatusReportPdu(<<0>>, 2, 7, a, d, 0, Date2, 0, <<o>>) :
                         o \in Octets, a \in {AddrIntl, AddrAlpha}, d \in {Date1}}
    IN  {<<encode_bytes(f), TRUE>> : f \in full}

(* dates, addresses and tails of status reports                            *)
ShapeInputs ==
    LET full == {DeliverPdu(<<0>>, 4, a, 0, 0, d, 0, <<1, 200>>) : a \in Addrs, d \in Dates}
                \cup {StatusReportPdu(<<0>>, 2, 7, a, d1, 0, d2, 136, t) :
                         a \in Addrs, d1 \in Dates, d2 \in Dates,
                         t \in {<< >>, <<0>>, <<1>>, <<0, 5>>}}
    IN  {<<encode_bytes(f), TRUE>> : f \in full}

(* user data: declared length, header indicator and length, format, bytes  *)
TextInputs ==
    LET full == {DeliverPdu(<<0>>, mtype, AddrNatl, 0, dcs, Date1, 0, UserData(msgl, h, text)) :
                    mtype \in {4, 68}, dcs \in {0, 4, 8, 12}, msgl \in 0..MaxUdl,
                    h \in 0..MaxHdr, text \in SeqsUpTo(TextBytes, MaxText)}
    IN  {<<encode_bytes(f), TRUE>> : f \in full}

Inputs == TruncatedInputs \cup SweepInputs \cup ShapeInputs \cup TextInputs

----------------------------------------------------------------------------
(* The constructor call SmsDeliver(pdu, strict), one action per block      *)

Init ==
    /\ \E i \in Inputs : pdu = i[1] /\ strict = i[2]
    /\ sms = NewSms

SetPdu ==
    /\ sms.pc = "set_pdu"
    /\ sms' = SetPduStep(sms, pdu, strict)
    /\ UNCHANGED <<pdu, strict>>

DecodeSmsc ==
    /\ sms.pc = "smsc"
    /\ sms' = SmscStep(sms)
    /\ UNCHANGED <<pdu, strict>>

ReadMtype ==
    /\ sms.pc = "mtype"
    /\ sms' = MtypeStep(sms)
    /\ UNCHANGED <<pdu, strict>>

DecodeSender ==
    /\ sms.pc = "sender"
    /\ sms' = SenderStep(sms)
    /\ UNCHANGED <<pdu, strict>>

ReadPidDcs ==
    /\ sms.pc = "pid_dcs"
    /\ sms' = PidDcsStep(sms)
    /\ UNCHANGED <<pdu, strict>>

DecodeScts ==
    /\ sms.pc = "scts"
    /\ sms' = SctsStep(sms)
    /\ UNCHANGED <<pdu, strict>>

ProcessMessage ==
    /\ sms.pc = "process_message"
    /\ sms' = ProcessMessageStep(sms)
    /\ UNCHANGED <<pdu, strict>>

SrAddress ==
    /\ sms.pc = "status_report"
    /\ sms' = SrAddressStep(sms)
    /\ UNCHANGED <<pdu, strict>>

SrTimestamps ==
    /\ sms.pc = "sr_timestamps"
    /\ sms' = SrTimestampsStep(sms)
    /\ UNCHANGED <<pdu, strict>>

SrStatus ==
    /\ sms.pc = "sr_status"
    /\ sms' = SrStatusStep(sms)
    /\ UNCHANGED <<pdu, strict>>

Next ==
    \/ SetPdu
    \/ DecodeSmsc
    \/ ReadMtype
    \/ DecodeSender
    \/ ReadPidDcs
    \/ DecodeScts
    \/ ProcessMessage
    \/ SrAddress
    \/ SrTimestamps
    \/ SrStatus

Spec == Init /\ [][Next]_vars

TypeOK == sms.pc \in {"set_pdu", "smsc", "mtype", "sender", "pid_dcs", "scts",
                      "process_message", "status_report", "sr_timestamps",
                      "sr_status", "done", "failed"}

----------------------------------------------------------------------------
(* Notions the properties are stated with, computed from the input alone   *)

Final == sms.pc \in {"done", "failed"}

(* the octets the decoder walks: the stored (possibly trimmed) pdu         *)
Bytes == IF sms._pdu = None THEN << >> ELSE to_array(sms._pdu[1])

Bit(x, k) == (x \div Pow2(k)) % 2

(* type-of-number, bits 4..6 of a type octet                               *)
Ton(octet) == (octet \div 16) % 8

(* index of the message-type octet: after the SMSC length octet and the    *)
(* octets it declares                                                      *)
MtypeAt(b) == 1 + b[1] + 1

(* the octet at an index, 0 beyond the end                                 *)
At(b, i) == IF i \in 1..Len(b) THEN b[i] ELSE 0

(* octets an address of the declared number of semi-octets takes           *)
DeclaredAddrOctets(semi) == (semi + 1) \div 2

(* octets of an SMS-DELIVER up to and including the user-data-length octet *)
DeliverFixedLen(b) ==
    MtypeAt(b) + 2 + DeclaredAddrOctets(At(b, MtypeAt(b) + 1)) + 2 + 7 + 1

(* octets of a status report up to the end of the discharge timestamp      *)
SrFixedLen(b) ==
    MtypeAt(b) + 1 + 2 + DeclaredAddrOctets(At(b, MtypeAt(b) + 2)) + 7 + 7

(* the field-separated parts of a composite text                           *)
RECURSIVE SplitBar(_, _, _)
SplitBar(s, cur, acc) ==
    IF Len(s) = 0 THEN Append(acc, cur)
    ELSE IF Head(s) = "|" THEN SplitBar(Tail(s), << >>, Append(acc, cur))
    ELSE SplitBar(Tail(s), Append(cur, Head(s)), acc)

Fields(text) == SplitBar(text, << >>, << >>)

(* what a caller of the constructor sees: the exception or the object      *)
Outcome(s) ==
    IF s.pc = "failed" THEN [result |-> "raised", err |-> s.err, obj |-> None]
    ELSE [result |-> "object", err |-> "", obj |-> Some(s)]

----------------------------------------------------------------------------
(* the input without its last hex digit                                    *)
Trimmed == SubSeq(pdu, 1, Len(pdu) - 1)

(* C1: for an odd-length hex string, strict mode raises ValueError with    *)
(* nothing decoded; lenient mode gives the outcome of decoding the string  *)
(* without its last digit, and the stored pdu is that trimmed string.      *)
C1_OddLength ==
    (Len(pdu) % 2 = 1 /\ sms.pc # "set_pdu") =>
        /\ strict => sms = Raise(NewSms, "ValueError")
        /\ ~strict =>
            /\ sms._pdu = Some(Trimmed)
            /\ Final => /\ Outcome(sms) = Outcome(SmsDeliver(Trimmed, TRUE))
                        /\ Outcome(sms) = Outcome(SmsDeliver(Trimmed, FALSE))

C1_Witness ==
    /\ Len(pdu) % 2 = 1
    /\ ~strict
    /\ sms.pc = "done"
    /\ sms.text # None

(* the (timezone octet, local datetime, UTC datetime) triples decoded so far *)
Timestamps ==
    (IF sms.tz # None
     THEN {[tz |-> sms.tz[1], local |-> sms.sndlocaltime[1], utc |-> sms.date[1]]}
     ELSE {})
    \cup
    (IF sms.dt_tz # None
     THEN {[tz |-> sms.dt_tz[1], local |-> sms.dt_local[1], utc |-> sms.dt[1]]}
     ELSE {})

(* C2 as claimed: offset octet 0x00 leaves the local time unchanged, and   *)
(* every offset octet 0x80..0x8F gives a UTC instant later than the local  *)
(* one.                                                                    *)
C2_AsClaimed ==
    \A t \in Timestamps :
        /\ t.tz = 0 => t.utc = t.local
        /\ t.tz \in 128..143 => t.utc > t.local

(* C2 amended: offset octet 0x00 leaves the local time unchanged; the sign *)
(* is bit 3 (0x08), so 0x88..0x8F give a UTC instant later than the local  *)
(* one and 0x80..0x87 an earlier one.                                      *)
C2_Timezone ==
    \A t \in Timestamps :
        /\ t.tz = 0 => t.utc = t.local
        /\ t.tz \in 136..143 => t.utc > t.local
        /\ t.tz \in 128..135 => t.utc < t.local

C2_Witness ==
    /\ sms.pc = "done"
    /\ \E t \in Timestamps : t.tz \in 136..143 /\ t.utc > t.local
    /\ \E t \in Timestamps : t.tz = 0 /\ t.utc = t.local

(* C3 as claimed: an international address starts with "+" and an          *)
(* alphanumeric one is the gsm0338 decoding of its unpacked septets, for   *)
(* the sender of an SMS-DELIVER and the recipient of a status report.      *)
C3_AddressInvariant ==
    sms.pc = "done" =>
        /\ sms.tp_mti = Some(0) =>
              /\ sms.sndtype[1] = INTERNATIONAL =>
                    sms.number[1].codec = "str" /\ Head(sms.number[1].units) = "+"
              /\ sms.sndtype[1] = ALPHANUMERIC =>
                    sms.number[1] = Gsm0338(unpack_msg2(sms.sndaddr[1]))
        /\ sms.tp_mti = Some(2) =>
              /\ Ton(sms.sndtype[1]) = INTERNATIONAL =>
                    /\ sms.sr[1].recipient.codec = "str"
                    /\ Head(sms.sr[1].recipient.units) = "+"
              /\ Ton(sms.sndtype[1]) = ALPHANUMERIC =>
                    sms.sr[1].recipient = Gsm0338(unpack_msg2(sms.sndaddr[1]))


C5_MissingStatus ==
    (sms.tp_mti = Some(2) /\ sms.pc \in {"sr_status", "done", "failed"}
        /\ sms.dt_str # None /\ Len(Bytes) = SrFixedLen(Bytes)) =>
        /\ sms.pc # "failed"
        /\ sms.pc = "done" =>
              /\ sms.number = Some(Chars(SR_UNKNOWN))
              /\ sms.sr[1].status = None
              /\ Len(Fields(sms.text[1].units)) = 3
              /\ Fields(sms.text[1].units)[3] = sms.dt_str[1]
              /\ sms.dt_str[1] # << >>

C5_Witness ==
    /\ sms.pc = "done"
    /\ sms.tp_mti = Some(2)
    /\ Len(Bytes) = SrFixedLen(Bytes)
    /\ sms.number = Some(Chars(SR_UNKNOWN))

DeliverPcs == {"sender", "pid_dcs", "scts", "process_message"}
StatusReportPcs == {"status_report", "sr_timestamps", "sr_status"}

(* C6: once the message-type octet is read, type 0b11 and 0b01 fail with   *)
(* ValueError whatever follows and decode no further field; 0b10 alone     *)
(* goes to the status-report decoder and 0b00 alone goes on as SMS-DELIVER. *)
C6_TypeDispatch ==
    sms.mtype # None =>
        LET mti == sms.mtype[1] % 4
        IN  /\ mti \in {1, 3} =>
                  /\ sms.pc = "failed" /\ sms.err = "ValueError"
                  /\ sms.number = None /\ sms.pid = None /\ sms.dcs = None
                  /\ sms.date = None /\ sms.text = None /\ sms.sr = None
            /\ (sms.pc \in StatusReportPcs \/ sms.sr # None \/ sms.recipient # None)
                  => mti = 2
            /\ (sms.pc \in DeliverPcs \/ sms.pid # None \/ sms.sndaddr # None
                  \/ sms.msgl # None) => mti \in {0, 2}
            /\ (sms.pc \in DeliverPcs \/ sms.pid # None \/ sms.msgl # None) => mti = 0
            /\ mti = 2 => sms.pc \notin DeliverPcs
            /\ mti = 0 => sms.pc \notin StatusReportPcs /\ sms.sr = None

C6_Witness ==
    /\ sms.mtype # None
    /\ sms.mtype[1] % 4 = 1
    /\ sms.pc = "failed"
    /\ sms.err = "ValueError"
    /\ Len(sms.data) > 0


(* ceil(x / 7)                                                             *)
CeilDiv7(x) == (x + 6) \div 7

(* s without its first n elements, empty when it has no more than n        *)
After(s, n) == [i \in 1..(IF Len(s) > n THEN Len(s) - n ELSE 0) |-> s[n + i]]

(* the septets of the packed octets, septet k from bit 7(k-1): all whole   *)
(* septets, and with a multiple of 7 octets nothing else                   *)
SeptetAt(octets, k) ==
    LET bit(j) == Bit(At(octets, (j \div 8) + 1), j % 8)
    IN  bit(7 * (k - 1)) + 2 * bit(7 * (k - 1) + 1) + 4 * bit(7 * (k - 1) + 2)
        + 8 * bit(7 * (k - 1) + 3) + 16 * bit(7 * (k - 1) + 4)
        + 32 * bit(7 * (k - 1) + 5) + 64 * bit(7 * (k - 1) + 6)

(* units of 16 bits, big-endian                                            *)
Wide(octets) == [i \in 1..(Len(octets) \div 2) |->
                    256 * octets[2 * i - 1] + octets[2 * i]]

(* C7: with the header indicator set the packed-7bit text drops            *)
(* ceil((H+1)*8/7) leading septets and ends at septet UDL, the 8-bit and   *)
(* 16-bit texts skip H+1 octets; with the indicator clear nothing is       *)
(* skipped.                                                                *)
C7_HeaderPadding ==
    (sms.pc = "done" /\ sms.tp_mti = Some(0)) =>
        LET body == sms.body[1]
            udhi == sms.tp_udhi = Some(TRUE)
            H    == body[1]
            UDL  == sms.msgl[1]
            units == sms.text[1].units
            skip7 == IF udhi THEN CeilDiv7((H + 1) * 8) ELSE 0
            skip8 == IF udhi THEN H + 1 ELSE 0
        IN  /\ sms.fmt = Some(0) =>
                  /\ sms.text[1].codec = "gsm0338"
                  /\ \A i \in 1..Len(units) :
                        /\ skip7 + i <= UDL
                        /\ units[i] = SeptetAt(Take(body, UDL), skip7 + i)
                  /\ \A k \in (skip7 + 1)..UDL :
                        7 * k <= 8 * Len(Take(body, UDL)) => k - skip7 <= Len(units)
            /\ sms.fmt = Some(4) =>
                  sms.text[1] = RawBytes(After(body, skip8))
            /\ sms.fmt = Some(8) =>
                  sms.text[1] = Unichrs(Wide(After(body, skip8)))

C7_Witness ==
    /\ sms.pc = "done"
    /\ sms.tp_mti = Some(0)
    /\ sms.tp_udhi = Some(TRUE)
    /\ sms.fmt = Some(0)
    /\ sms.ud_len[1] = 2
    /\ Len(sms.text[1].units) > 0

(* C8: the format is a total function of the DCS octet: 0x00 iff bits 2    *)
(* and 3 are clear, 0x04 iff bit 2 is set, 0x08 iff bit 3 is set and bit 2 *)
(* clear; an SMS-DELIVER past the DCS octet has one of the three.          *)
C8_DcsFormat ==
    (sms.dcs # None /\ sms.tp_mti = Some(0)) =>
        LET b2 == Bit(sms.dcs[1], 2) = 1
            b3 == Bit(sms.dcs[1], 3) = 1
        IN  /\ sms.fmt \in {Some(0), Some(4), Some(8)}
            /\ sms.fmt = Some(0) <=> (~b2 /\ ~b3)
            /\ sms.fmt = Some(4) <=> b2
            /\ sms.fmt = Some(8) <=> (b3 /\ ~b2)

C8_Witness ==
    /\ sms.pc = "done"
    /\ sms.tp_mti = Some(0)
    /\ sms.dcs # None
    /\ Bit(sms.dcs[1], 2) = 1
    /\ Bit(sms.dcs[1], 3) = 1
    /\ sms.fmt = Some(4)

(* C9: with a status octet s present the label is SR-OK iff s = 0x00,      *)
(* SR-STORED iff s = 0x30, SR-UNKNOWN otherwise; the recorded status is s; *)
(* the text has the three fields recipient, submission time and a third    *)
(* that is the discharge time iff the label is SR-OK, else empty; the      *)
(* format is 0x08.                                                         *)
C9_StatusReport ==
    (sms.pc = "done" /\ sms.tp_mti = Some(2) /\ Len(Bytes) > SrFixedLen(Bytes)) =>
        LET s      == Bytes[SrFixedLen(Bytes) + 1]
            label  == sms.number[1].units
            fields == Fields(sms.text[1].units)
        IN  /\ label \in {SR_OK, SR_STORED, SR_UNKNOWN}
            /\ label = SR_OK <=> s = 0
            /\ label = SR_STORED <=> s = 48
            /\ sms.sr[1].status = Some(s)
            /\ Len(fields) = 3
            /\ fields[1] = sms.sr[1].recipient.units
            /\ fields[2] = sms.scts_str[1]
            /\ fields[3] = sms.dt_str[1] <=> label = SR_OK
            /\ label # SR_OK => fields[3] = << >>
            /\ sms.fmt = Some(8)

C9_Witness ==
    /\ sms.pc = "done"
    /\ sms.tp_mti = Some(2)
    /\ sms.sr[1].status = Some(48)
    /\ sms.number[1].units = SR_STORED

(* the stored pdu with the user-data-length octet replaced by v            *)
WithUdl(v) ==
    LET at == Len(Bytes) - Len(sms.body[1])
    IN  encode_bytes([i \in 1..Len(Bytes) |-> IF i = at THEN v ELSE Bytes[i]])

UdlValues == 0..(MaxUdl + 1) \cup {255}

TextOutcome(s) == <<s.pc, s.err, s.text>>

(* C10: in the 8-bit and 16-bit paths the text does not depend on the      *)
(* user-data-length octet: a PDU differing only in that octet decodes to   *)
(* the same text, which holds every octet after the length octet (and      *)
(* after the sub-header); the packed-7bit text alone is bounded by it.     *)
C10_UdlIgnored ==
    (Final /\ sms.tp_mti = Some(0) /\ sms.body # None) =>
        LET body == sms.body[1]
            skip == IF sms.tp_udhi = Some(TRUE) THEN At(body, 1) + 1 ELSE 0
        IN  /\ sms.fmt \in {Some(4), Some(8)} =>
                  /\ \A v \in UdlValues :
                        TextOutcome(SmsDeliver(WithUdl(v), TRUE)) = TextOutcome(sms)
                  /\ (sms.pc = "done" /\ sms.fmt = Some(4)) =>
                        sms.text[1].units = After(body, skip)
                  /\ (sms.pc = "done" /\ sms.fmt = Some(8)) =>
                        Len(sms.text[1].units) * 2 = Len(After(body, skip))
            /\ (sms.fmt = Some(0) /\ sms.pc = "done") =>
                  Len(sms.text[1].units) <= sms.msgl[1]

C10_Witness ==
    /\ sms.pc = "done"
    /\ sms.tp_mti = Some(0)
    /\ sms.fmt = Some(4)
    /\ sms.msgl[1] < Len(sms.text[1].units)

====
